---------------------------- MODULE Spec2Model ----------------------------
(***************************************************************************)
(* A model of the a2a_demo repository: the burger seller's task manager    *)
(* (tasks/send over the in-memory task store), the pizza seller's A2A      *)
(* server (authentication gate and dispatcher) and the purchasing          *)
(* concierge (the orchestrator's send_task over its session state).        *)
(*                                                                         *)
(* Each component has its own specification (SellerSpec, ServerSpec,       *)
(* OrchSpec); the variables of the other components stay at their initial  *)
(* values.                                                                 *)
(***************************************************************************)
EXTENDS Naturals, Integers, Sequences, FiniteSets, TLC

VARIABLES
    tasks,                    \* InMemoryTaskManager.tasks: task id -> Task
    push_notification_infos,  \* InMemoryTaskManager.push_notification_infos: task id -> config
    slots,                    \* the tasks/send requests in flight, one coroutine per slot
    delivered,                \* the push notifications issued so far, in order
    verified,                 \* the (task id, url) pairs whose ownership challenge succeeded
    nsent,                    \* number of tasks/send requests received so far
    server,                   \* the A2AServer object: how construction ended, and its fields
    request,                  \* the POST request the server handled last
    response,                 \* the response it gave to that request
    logged,                   \* what _handle_exception logged for that request
    ncalls,                   \* number of task-manager handler invocations so far
    nreq,                     \* number of POST requests handled so far
    remote_agent_connections, \* PurchasingAgent: the names in the routing table
    cards,                    \* PurchasingAgent: the names in the card table
    fetches,                  \* how the discovery fetch of each address tried so far ended
    state,                    \* the session state dict of the calling context
    escalate,                 \* tool_context.actions.escalate of the running tool call
    call,                     \* the orchestrator's send_task call: where it is, what it sent and got
    turn,                     \* the harness: "new" before __init__, "aborted" if it raised,
                              \* then "model" before the callback and "llm" after it
    nuuid,                    \* number of uuid4() values drawn so far
    ncall,                    \* number of send_task calls so far
    last_send,                \* the most recent send_task that was routed, and how it ended
    conn,                     \* a RemoteAgentConnections.send_task call: request, response, result
    merge_run                 \* merge_metadata applied to drawn objects: inputs, target, merges done

sellerVars == <<tasks, push_notification_infos, slots, delivered, verified, nsent>>
serverVars == <<server, request, response, logged, ncalls, nreq>>

orchVars ==
    <<remote_agent_connections, cards, fetches, state, escalate, call, turn, nuuid, ncall,
      last_send>>

connVars == <<conn, merge_run>>

vars == <<sellerVars, serverVars, orchVars, connVars>>

(***************************************************************************)
(* Bounds of the model.                                                    *)
(***************************************************************************)
MaxSends == 2
MaxRequests == 1
MaxCalls == 2
MaxMerges == 2

TaskIds == {"t1", "t2"}
Slots == {"r1", "r2"}
Urls == {"cb1", "cb2"}

(***************************************************************************)
(* a2a_types.TaskState, as the specification's closed enum.                *)
(***************************************************************************)
WORKING == "working"
INPUT_REQUIRED == "input-required"
COMPLETED == "completed"
CANCELED == "canceled"
FAILED == "failed"
UNKNOWN == "unknown"

TaskStates == {WORKING, INPUT_REQUIRED, COMPLETED, CANCELED, FAILED, UNKNOWN}
TerminalStates == {COMPLETED, CANCELED, FAILED, UNKNOWN}

(***************************************************************************)
(* Burger seller: request parameters.                                      *)
(***************************************************************************)
SUPPORTED_CONTENT_TYPES == {"text", "text/plain"}

\* acceptedOutputModes a client may send
OutputModes == {{"text", "text/plain"}, {"image/png"}}

\* TaskSendParams.pushNotification: unset, set with no url, set with a url
NoPush == [set |-> FALSE, url |-> ""]
PushParams == {NoPush} \cup {[set |-> TRUE, url |-> u] : u \in Urls \cup {""}}

\* the type tag of message.parts[0]
PartKinds == {"text", "file"}

\* what the crew hands to get_agent_response: a ResponseFormat with one of
\* its three statuses and a message, or something that is none
Contents == {"reply"}
Unable == "We are unable to process your request at the moment. Please try again."
CrewResponses ==
    [status : {"input_required", "error", "completed"}, message : Contents]
        \cup {[status |-> "none", message |-> ""]}

\* BurgerSellerAgent.get_agent_response (agent.py, lines 131-157)
GetAgentResponseErrorEnds(response_object) ==
    CASE response_object.status = "input_required" ->
           [is_task_complete |-> FALSE, require_user_input |-> TRUE,
            content |-> response_object.message]
      [] response_object.status = "error" ->
           [is_task_complete |-> FALSE, require_user_input |-> FALSE,
            content |-> response_object.message]
      [] response_object.status = "completed" ->
           [is_task_complete |-> TRUE, require_user_input |-> FALSE,
            content |-> response_object.message]
      [] OTHER ->
           [is_task_complete |-> FALSE, require_user_input |-> TRUE, content |-> Unable]

get_agent_response(response_object) ==
    CASE response_object.status = "input_required" ->
           [is_task_complete |-> FALSE, require_user_input |-> TRUE,
            content |-> response_object.message]
      [] response_object.status = "error" ->
           [is_task_complete |-> FALSE, require_user_input |-> TRUE,
            content |-> response_object.message]
      [] response_object.status = "completed" ->
           [is_task_complete |-> TRUE, require_user_input |-> FALSE,
            content |-> response_object.message]
      [] OTHER ->
           [is_task_complete |-> FALSE, require_user_input |-> TRUE, content |-> Unable]

\* what the executor hands back: BurgerSellerAgent.invoke
AgentResponses == {get_agent_response(r) : r \in CrewResponses}
NoAgentResponse == [is_task_complete |-> FALSE, require_user_input |-> FALSE, content |-> ""]

NoMessage == [role |-> "none", kind |-> "none", text |-> ""]
UserMessage(kind) == [role |-> "user", kind |-> kind, text |-> "query"]
AgentMessage(content) == [role |-> "agent", kind |-> "text", text |-> content]

TaskStatus(task_state, message) == [state |-> task_state, message |-> message]

(***************************************************************************)
(* InMemoryTaskManager (a2a_server/task_manager.py), the base class of the *)
(* seller's task manager: modelled from the specification, section 4.1.    *)
(***************************************************************************)
\* the record upsert creates for an absent id; WORKING is the initial state
NewTask(message) ==
    [status |-> TaskStatus(WORKING, NoMessage), artifacts |-> <<>>, history |-> <<message>>]

\* upsert(id, sessionId, inboundMessage): creates the task if absent, else
\* appends inboundMessage to history; never errors on re-use of an id
upsert_task(ts, id, message) ==
    IF id \in DOMAIN ts
    THEN [ts EXCEPT ![id].history = Append(@, message)]
    ELSE ts @@ (id :> NewTask(message))

\* updateStatus(id, status, artifacts?): replaces status, appends any message
\* in status to history, appends artifacts (the id is known: NotFound otherwise)
update_store(ts, id, status, artifacts) ==
    [ts EXCEPT ![id] =
        [status |-> status,
         artifacts |-> @.artifacts \o artifacts,
         history |-> IF status.message = NoMessage
                     THEN @.history
                     ELSE Append(@.history, status.message)]]

has_push_notification_info(infos, id) == id \in DOMAIN infos

\* InMemoryTaskManager.set_push_notification_info: stores the config for the id
store_push_notification_info(infos, id, config) ==
    IF id \in DOMAIN infos
    THEN [infos EXCEPT ![id] = config]
    ELSE infos @@ (id :> config)

\* utils.are_modalities_compatible: some requested type is supported
are_modalities_compatible(accepted, supported) == accepted \cap supported # {}

(***************************************************************************)
(* AgentTaskManager (burger_agent/task_manager.py).                        *)
(***************************************************************************)
IdleSlot ==
    [pc |-> "idle", id |-> "", push |-> NoPush, kind |-> "none",
     chal |-> "none", invoked |-> FALSE, notified |-> "none", resp |-> "none",
     agent_response |-> NoAgentResponse]

\* _validate_request: the error it returns, or "none"
validate_request(accepted, push) ==
    IF ~are_modalities_compatible(accepted, SUPPORTED_CONTENT_TYPES)
    THEN "ContentTypeNotSupported"
    ELSE IF push.set /\ push.url = ""
         THEN "InvalidParams"
         ELSE "none"

\* send_task_notification: a delivery of the task, if a config is stored for it
send_task_notification(log, infos, ts, id) ==
    IF ~has_push_notification_info(infos, id)
    THEN log
    ELSE Append(log, [id |-> id, url |-> infos[id].url, state |-> ts[id].status.state])

\* on_send_task, line 85: await self.upsert_task(request.params)
UpsertNewOnly(ts, id, message) ==
    IF id \in DOMAIN ts THEN ts ELSE upsert_task(ts, id, message)

UpsertCall(ts, id, message) ==
    upsert_task(ts, id, message)

\* on_send_task up to its first suspension: validation, then the upsert
BeginUpsertsFirst(s) ==
    /\ slots[s].pc \in {"idle", "done"}
    /\ nsent < MaxSends
    /\ nsent' = nsent + 1
    /\ \E id \in TaskIds, push \in PushParams, accepted \in OutputModes, kind \in PartKinds :
        LET err == validate_request(accepted, push)
            req == [IdleSlot EXCEPT !.id = id, !.push = push, !.kind = kind]
        IN  /\ tasks' = UpsertCall(tasks, id, UserMessage(kind))
            /\ IF err # "none"
               THEN slots' = [slots EXCEPT ![s] = [req EXCEPT !.pc = "done", !.resp = err]]
               ELSE slots' = [slots EXCEPT ![s] =
                        [req EXCEPT !.pc = IF push.set THEN "verify" ELSE "working"]]
    /\ UNCHANGED <<push_notification_infos, delivered, verified, serverVars, orchVars, connVars>>

Begin(s) ==
    /\ slots[s].pc \in {"idle", "done"}
    /\ nsent < MaxSends
    /\ nsent' = nsent + 1
    /\ \E id \in TaskIds, push \in PushParams, accepted \in OutputModes, kind \in PartKinds :
        LET err == validate_request(accepted, push)
            req == [IdleSlot EXCEPT !.id = id, !.push = push, !.kind = kind]
        IN  IF err # "none"
            THEN /\ slots' = [slots EXCEPT ![s] = [req EXCEPT !.pc = "done", !.resp = err]]
                 /\ UNCHANGED tasks
            ELSE /\ tasks' = UpsertCall(tasks, id, UserMessage(kind))
                 /\ slots' = [slots EXCEPT ![s] =
                        [req EXCEPT !.pc = IF push.set THEN "verify" ELSE "working"]]
    /\ UNCHANGED <<push_notification_infos, delivered, verified, serverVars, orchVars, connVars>>

\* set_push_notification_info, with the outcome of the ownership challenge
SetPushAlways(s, is_verified) ==
    /\ push_notification_infos' =
           store_push_notification_info(push_notification_infos, slots[s].id,
                                        [url |-> slots[s].push.url])
    /\ verified' = IF is_verified THEN verified \cup {<<slots[s].id, slots[s].push.url>>}
                   ELSE verified
    /\ slots' = [slots EXCEPT ![s].pc = "working", ![s].chal = IF is_verified THEN "ok" ELSE "failed"]

SetPushContinue(s, is_verified) ==
    /\ IF is_verified
       THEN /\ push_notification_infos' =
                   store_push_notification_info(push_notification_infos, slots[s].id,
                                                [url |-> slots[s].push.url])
            /\ verified' = verified \cup {<<slots[s].id, slots[s].push.url>>}
       ELSE UNCHANGED <<push_notification_infos, verified>>
    /\ slots' = [slots EXCEPT ![s].pc = "working", ![s].chal = IF is_verified THEN "ok" ELSE "failed"]

\* on_send_task, lines 87-96, with set_push_notification_info (lines 158-169)
SetPush(s, is_verified) ==
    IF is_verified
    THEN /\ push_notification_infos' =
                store_push_notification_info(push_notification_infos, slots[s].id,
                                             [url |-> slots[s].push.url])
         /\ verified' = verified \cup {<<slots[s].id, slots[s].push.url>>}
         /\ slots' = [slots EXCEPT ![s].pc = "working", ![s].chal = "ok"]
    ELSE /\ slots' = [slots EXCEPT ![s].pc = "done", ![s].chal = "failed",
                                   ![s].resp = "InvalidParams"]
         /\ UNCHANGED <<push_notification_infos, verified>>

Verify(s) ==
    /\ slots[s].pc = "verify"
    /\ \E is_verified \in BOOLEAN : SetPush(s, is_verified)
    /\ UNCHANGED <<tasks, delivered, nsent, serverVars, orchVars, connVars>>

\* PushNotificationSenderAuth.send_push_notification (a2a_server, not in this
\* tree): the POST goes through, or its failure is logged; neither raises
DeliveryOutcomes == {"sent", "failed"}

\* await self.send_task_notification(task), lines 101 and 138: the request
\* (already set to go on) once the await is over, with the outcome of the
\* delivery if one was issued
AwaitNotificationRaises(infos, id, slot, outcome) ==
    IF ~has_push_notification_info(infos, id)
    THEN slot
    ELSE IF outcome = "failed"
         THEN [slot EXCEPT !.pc = "done", !.notified = outcome, !.resp = "ValueError"]
         ELSE [slot EXCEPT !.notified = outcome]

await_notification(infos, id, slot, outcome) ==
    IF has_push_notification_info(infos, id) THEN [slot EXCEPT !.notified = outcome] ELSE slot

\* on_send_task, lines 98-101: the WORKING write and its notification
WorkingSerialized(s) ==
    /\ slots[s].pc = "working"
    /\ \A other \in Slots \ {s} :
           ~(slots[other].id = slots[s].id /\ slots[other].pc = "invoke")
    /\ tasks' = update_store(tasks, slots[s].id, TaskStatus(WORKING, NoMessage), <<>>)
    /\ delivered' = send_task_notification(delivered, push_notification_infos, tasks', slots[s].id)
    /\ \E outcome \in DeliveryOutcomes :
          slots' = [slots EXCEPT ![s] =
                       await_notification(push_notification_infos, slots[s].id,
                                          [@ EXCEPT !.pc = "invoke"], outcome)]
    /\ UNCHANGED <<push_notification_infos, verified, nsent, serverVars, orchVars, connVars>>

WorkingKeepsStatus(s) ==
    /\ slots[s].pc = "working"
    /\ tasks' = tasks
    /\ delivered' = send_task_notification(delivered, push_notification_infos, tasks', slots[s].id)
    /\ \E outcome \in DeliveryOutcomes :
          slots' = [slots EXCEPT ![s] =
                       await_notification(push_notification_infos, slots[s].id,
                                          [@ EXCEPT !.pc = "invoke"], outcome)]
    /\ UNCHANGED <<push_notification_infos, verified, nsent, serverVars, orchVars, connVars>>

Working(s) ==
    /\ slots[s].pc = "working"
    /\ tasks' = update_store(tasks, slots[s].id, TaskStatus(WORKING, NoMessage), <<>>)
    /\ delivered' = send_task_notification(delivered, push_notification_infos, tasks', slots[s].id)
    /\ \E outcome \in DeliveryOutcomes :
          slots' = [slots EXCEPT ![s] =
                       await_notification(push_notification_infos, slots[s].id,
                                          [@ EXCEPT !.pc = "invoke"], outcome)]
    /\ UNCHANGED <<push_notification_infos, verified, nsent, serverVars, orchVars, connVars>>

\* _process_agent_response: the final status and artifacts
final_status(agent_response) ==
    IF agent_response.require_user_input
    THEN TaskStatus(INPUT_REQUIRED, AgentMessage(agent_response.content))
    ELSE TaskStatus(COMPLETED, NoMessage)

final_artifacts(agent_response) ==
    IF agent_response.require_user_input
    THEN <<>>
    ELSE <<agent_response.content>>

\* on_send_task, lines 103-110, and _process_agent_response
Invoke(s) ==
    /\ slots[s].pc = "invoke"
    /\ IF slots[s].kind # "text"
       THEN \* _get_user_query raises
            /\ slots' = [slots EXCEPT ![s].pc = "done", ![s].resp = "ValueError"]
            /\ UNCHANGED <<tasks, delivered>>
       ELSE \/ \* the executor raises
               /\ slots' = [slots EXCEPT ![s].pc = "done", ![s].invoked = TRUE,
                                         ![s].resp = "ValueError"]
               /\ UNCHANGED <<tasks, delivered>>
            \/ \E agent_response \in AgentResponses, outcome \in DeliveryOutcomes :
               /\ tasks' = update_store(tasks, slots[s].id, final_status(agent_response),
                                        final_artifacts(agent_response))
               /\ delivered' = send_task_notification(delivered, push_notification_infos,
                                                      tasks', slots[s].id)
               /\ slots' = [slots EXCEPT ![s] =
                      await_notification(push_notification_infos, slots[s].id,
                                         [@ EXCEPT !.pc = "done", !.invoked = TRUE,
                                                   !.resp = "result",
                                                   !.agent_response = agent_response],
                                         outcome)]
    /\ UNCHANGED <<push_notification_infos, verified, nsent, serverVars, orchVars, connVars>>

(***************************************************************************)
(* Strings of the HTTP layer are sequences of byte values (ASCII), so that *)
(* split, lower, base64 and utf-8 decoding are computed, not assumed.      *)
(***************************************************************************)
\* "bearer"
S_bearer == <<98, 101, 97, 114, 101, 114>>
\* "basic"
S_basic == <<98, 97, 115, 105, 99>>
\* "Bearer"
S_Bearer == <<66, 101, 97, 114, 101, 114>>
\* "Basic"
S_Basic == <<66, 97, 115, 105, 99>>
\* "Digest"
S_Digest == <<68, 105, 103, 101, 115, 116>>
\* "secret123"
K_secret == <<115, 101, 99, 114, 101, 116, 49, 50, 51>>
\* "u"
K_user == <<117>>
\* "p"
K_pass == <<112>>
\* "p:q"
K_passColon == <<112, 58, 113>>
\* ""
H_empty == <<>>
\* "Bearer secret123"
H_BearerSecret == <<66, 101, 97, 114, 101, 114, 32, 115, 101, 99, 114, 101, 116, 49, 50, 51>>
\* "Bearer wrong"
H_BearerWrong == <<66, 101, 97, 114, 101, 114, 32, 119, 114, 111, 110, 103>>
\* "bearer secret123"
H_lowerBearerSecret == <<98, 101, 97, 114, 101, 114, 32, 115, 101, 99, 114, 101, 116, 49, 50, 51>>
\* "Bearer"
H_BearerOnly == <<66, 101, 97, 114, 101, 114>>
\* "Bearer secret123 x"
H_BearerThree == <<66, 101, 97, 114, 101, 114, 32, 115, 101, 99, 114, 101, 116, 49, 50, 51, 32, 120>>
\* "Basic dTpw", the credential of "u:p"
H_BasicUP == <<66, 97, 115, 105, 99, 32, 100, 84, 112, 119>>
\* "Basic dTpx", the credential of "u:q"
H_BasicUQ == <<66, 97, 115, 105, 99, 32, 100, 84, 112, 120>>
\* "Basic dTpwOnE=", the credential of "u:p:q"
H_BasicUPQ == <<66, 97, 115, 105, 99, 32, 100, 84, 112, 119, 79, 110, 69, 61>>
\* "Basic dXA=", the credential of "up" (no colon)
H_BasicNoColon == <<66, 97, 115, 105, 99, 32, 100, 88, 65, 61>>
\* "Basic /w==", the credential of the single byte 0xFF (not utf-8)
H_BasicBadUtf8 == <<66, 97, 115, 105, 99, 32, 47, 119, 61, 61>>
\* "Basic dTp" (incorrect padding)
H_BasicBadPad == <<66, 97, 115, 105, 99, 32, 100, 84, 112>>
\* "Digest dTpw"
H_DigestX == <<68, 105, 103, 101, 115, 116, 32, 100, 84, 112, 119>>

\* an optional string: Python's None, or a str
None == [some |-> FALSE, val |-> <<>>]
Some(v) == [some |-> TRUE, val |-> v]
\* Python truthiness of an optional string: neither None nor ""
Truthy(o) == o.some /\ o.val # <<>>

\* str.lower() on ASCII
Lower(s) == [i \in DOMAIN s |-> IF s[i] >= 65 /\ s[i] <= 90 THEN s[i] + 32 ELSE s[i]]

\* the ASCII whitespace str.split() splits on
IsSpace(c) == c \in {9, 10, 11, 12, 13, 32}

\* str.split(): the maximal runs of non-whitespace, in order
RECURSIVE SplitFrom(_, _, _)
SplitFrom(s, i, cur) ==
    IF i > Len(s)
    THEN IF cur = <<>> THEN <<>> ELSE <<cur>>
    ELSE IF IsSpace(s[i])
         THEN (IF cur = <<>> THEN <<>> ELSE <<cur>>) \o SplitFrom(s, i + 1, <<>>)
         ELSE SplitFrom(s, i + 1, Append(cur, s[i]))

Split(s) == SplitFrom(s, 1, <<>>)

\* the value of a character of the base64 alphabet, -1 for any other
Sextet(c) ==
    IF c >= 65 /\ c <= 90 THEN c - 65
    ELSE IF c >= 97 /\ c <= 122 THEN c - 71
    ELSE IF c >= 48 /\ c <= 57 THEN c + 4
    ELSE IF c = 43 THEN 62
    ELSE IF c = 47 THEN 63
    ELSE -1

\* the bytes of a sequence of sextets, whole quads first
RECURSIVE QuadBytes(_)
QuadBytes(q) ==
    IF Len(q) >= 4
    THEN <<q[1] * 4 + q[2] \div 16, (q[2] % 16) * 16 + q[3] \div 4, (q[3] % 4) * 64 + q[4]>>
         \o QuadBytes(SubSeq(q, 5, Len(q)))
    ELSE IF Len(q) = 3
         THEN <<q[1] * 4 + q[2] \div 16, (q[2] % 16) * 16 + q[3] \div 4>>
         ELSE IF Len(q) = 2
              THEN <<q[1] * 4 + q[2] \div 16>>
              ELSE <<>>

\* base64.b64decode (non-strict): characters outside the alphabet are
\* discarded; a final group of one character, or one short of padding, is an
\* error. Padding is trailing in every credential drawn here.
b64decode(s) ==
    LET chars == SelectSeq(s, LAMBDA c : Sextet(c) >= 0)
        sextets == [i \in DOMAIN chars |-> Sextet(chars[i])]
        npad == Len(SelectSeq(s, LAMBDA c : c = 61))
        rest == Len(sextets) % 4
    IN  IF rest = 1 \/ (rest = 2 /\ npad < 2) \/ (rest = 3 /\ npad < 1)
        THEN [ok |-> FALSE, val |-> <<>>]
        ELSE [ok |-> TRUE, val |-> QuadBytes(sextets)]

\* bytes.decode("utf-8") on ASCII bytes and on the byte 0xFF, which no
\* utf-8 text contains
utf8decode(bytes) ==
    IF \E i \in DOMAIN bytes : bytes[i] >= 128
    THEN [ok |-> FALSE, val |-> <<>>]
    ELSE [ok |-> TRUE, val |-> bytes]

\* decoded.split(":", 1) unpacked into two names: fails without a colon
SplitColon(s) ==
    IF \E i \in DOMAIN s : s[i] = 58
    THEN LET i == CHOOSE k \in DOMAIN s : s[k] = 58 /\ \A j \in 1..(k - 1) : s[j] # 58
         IN  [ok |-> TRUE, username |-> SubSeq(s, 1, i - 1), password |-> SubSeq(s, i + 1, Len(s))]
    ELSE [ok |-> FALSE, username |-> <<>>, password |-> <<>>]

(***************************************************************************)
(* A2AServer (pizza_agent/a2a_server/server.py).                           *)
(***************************************************************************)
\* agent_card.authentication.schemes
SchemeLists == {<<>>, <<S_Bearer>>, <<S_Basic>>, <<S_Digest>>, <<S_Bearer, S_Basic>>}
ApiKeys == {None, Some(<<>>), Some(K_secret)}
Usernames == {None, Some(<<>>), Some(K_user)}
Passwords == {None, Some(<<>>), Some(K_pass), Some(K_passColon)}

\* the Authorization header of a request: absent, or a string
Headers ==
    {None} \cup {Some(h) : h \in {H_empty, H_BearerSecret, H_BearerWrong, H_lowerBearerSecret,
                                  H_BearerOnly, H_BearerThree, H_BasicUP, H_BasicUQ,
                                  H_BasicUPQ, H_BasicNoColon, H_BasicBadUtf8, H_BasicBadPad,
                                  H_DigestX}}

\* the request variants of A2ARequest, and the bodies that decode to none
Methods == {"tasks/get", "tasks/send", "tasks/sendSubscribe", "tasks/cancel",
            "tasks/pushNotification/set", "tasks/pushNotification/get", "tasks/resubscribe"}
Bodies == Methods \cup {"not-json", "no-variant"}

\* what a task-manager handler does: a JSONRPCResponse, a stream, an exception
HandlerOutcomes == {"response", "stream", "raise"}
\* the errors on_send_task returns in a response instead of raising
\* (burger_agent/task_manager.py, lines 52-96)
ReturnedErrors == {"ContentTypeNotSupported", "InvalidParams"}

\* _process_request, lines 169-192: the handler the isinstance chain picks
\* for a decoded request
DispatchSwapped(method) ==
    CASE method = "tasks/get" -> "on_get_task"
      [] method = "tasks/send" -> "on_send_task_subscribe"
      [] method = "tasks/sendSubscribe" -> "on_send_task"
      [] method = "tasks/cancel" -> "on_cancel_task"
      [] method = "tasks/pushNotification/set" -> "on_set_task_push_notification"
      [] method = "tasks/pushNotification/get" -> "on_get_task_push_notification"
      [] method = "tasks/resubscribe" -> "on_resubscribe_to_task"

dispatch(method) ==
    CASE method = "tasks/get" -> "on_get_task"
      [] method = "tasks/send" -> "on_send_task"
      [] method = "tasks/sendSubscribe" -> "on_send_task_subscribe"
      [] method = "tasks/cancel" -> "on_cancel_task"
      [] method = "tasks/pushNotification/set" -> "on_set_task_push_notification"
      [] method = "tasks/pushNotification/get" -> "on_get_task_push_notification"
      [] method = "tasks/resubscribe" -> "on_resubscribe_to_task"

handler_outcomes(handler) ==
    IF handler = "on_send_task" THEN HandlerOutcomes \cup ReturnedErrors ELSE HandlerOutcomes

\* _create_response (lines 213-225) for what the handler gave back, and
\* _handle_exception (lines 201-211) for what it raised
\* the text of the exception a handler raises (task_manager.py line 109:
\* "Error invoking agent: ..."), and of a pydantic ValidationError
ExceptionDetail == "Error invoking agent: detail"
ValidationDetail == "validation errors"

CreateResponseLeaks(handler, outcome) ==
    CASE outcome = "stream" ->
           [status |-> 200, error |-> "none", data |-> "none", envelope |-> "event-stream",
            handler |-> handler, decoded |-> TRUE]
      [] outcome = "response" ->
           [status |-> 200, error |-> "none", data |-> "none", envelope |-> "jsonrpc",
            handler |-> handler, decoded |-> TRUE]
      [] outcome \in ReturnedErrors ->
           [status |-> 200, error |-> outcome, data |-> "none", envelope |-> "jsonrpc",
            handler |-> handler, decoded |-> TRUE]
      [] outcome = "raise" ->
           [status |-> 400, error |-> "InternalError", data |-> ExceptionDetail,
            envelope |-> "jsonrpc", handler |-> handler, decoded |-> TRUE]

create_response(handler, outcome) ==
    CASE outcome = "stream" ->
           [status |-> 200, error |-> "none", data |-> "none", envelope |-> "event-stream",
            handler |-> handler, decoded |-> TRUE]
      [] outcome = "response" ->
           [status |-> 200, error |-> "none", data |-> "none", envelope |-> "jsonrpc",
            handler |-> handler, decoded |-> TRUE]
      [] outcome \in ReturnedErrors ->
           [status |-> 200, error |-> outcome, data |-> "none", envelope |-> "jsonrpc",
            handler |-> handler, decoded |-> TRUE]
      [] outcome = "raise" ->
           [status |-> 400, error |-> "InternalError", data |-> "none", envelope |-> "jsonrpc",
            handler |-> handler, decoded |-> TRUE]

\* _handle_exception, line 207: only an exception that is neither a decode
\* nor a validation error is logged, with its text
log_exception(outcome) ==
    IF outcome = "raise" THEN <<"Unhandled exception: ", ExceptionDetail>> ELSE <<>>

NoServer ==
    [status |-> "none", schemes |-> <<>>, auth_scheme |-> "none",
     api_key |-> None, auth_username |-> None, auth_password |-> None]

\* A2AServer.__init__: the exception it raises, or "ok", and the scheme it keeps
init_status(schemes, api_key, auth_username, auth_password) ==
    IF Len(schemes) > 1
    THEN "ValueError"
    ELSE IF Len(schemes) = 0
         THEN "IndexError"   \* schemes[0] of an empty list
         ELSE IF Lower(schemes[1]) = S_bearer
              THEN IF ~api_key.some THEN "ValueError" ELSE "ok"
              ELSE IF Lower(schemes[1]) = S_basic
                   THEN IF ~auth_username.some \/ ~auth_password.some
                        THEN "ValueError"
                        ELSE "ok"
                   ELSE "ValueError"

init_scheme(schemes) ==
    IF Len(schemes) = 0 THEN "none"
    ELSE IF Lower(schemes[1]) = S_bearer THEN "bearer"
         ELSE IF Lower(schemes[1]) = S_basic THEN "basic"
              ELSE "none"

Construct ==
    /\ server.status = "none"
    /\ \E schemes \in SchemeLists, api_key \in ApiKeys,
          auth_username \in Usernames, auth_password \in Passwords :
        server' = [status |-> init_status(schemes, api_key, auth_username, auth_password),
                   schemes |-> schemes,
                   auth_scheme |-> init_scheme(schemes),
                   api_key |-> api_key,
                   auth_username |-> auth_username,
                   auth_password |-> auth_password]
    /\ UNCHANGED <<request, response, logged, ncalls, nreq, sellerVars, orchVars, connVars>>

verify_bearer_token(srv, token) == token = srv.api_key.val

verify_basic_auth(srv, username, password) ==
    username = srv.auth_username.val /\ password = srv.auth_password.val

Accept == [valid |-> TRUE, msg |-> "none"]
Reject(msg) == [valid |-> FALSE, msg |-> msg]

\* the basic branch of verify_auth_header, lines 140-152
verify_basic_header(srv, credentials) ==
    IF ~Truthy(srv.auth_username) \/ ~Truthy(srv.auth_password)
    THEN Accept   \* "Skip auth if credentials not set"
    ELSE LET raw == b64decode(credentials)
             decoded == utf8decode(raw.val)
             pair == SplitColon(decoded.val)
         IN  IF ~raw.ok \/ ~decoded.ok \/ ~pair.ok
             THEN Reject("Invalid basic auth format")
             ELSE IF ~verify_basic_auth(srv, pair.username, pair.password)
                  THEN Reject("Invalid credentials")
                  ELSE Accept

\* the bearer branch of verify_auth_header, lines 132-138
verify_bearer_header(srv, credentials) ==
    IF ~Truthy(srv.api_key)
    THEN Accept   \* "Skip auth if no API key is set"
    ELSE IF ~verify_bearer_token(srv, credentials)
         THEN Reject("Invalid bearer token")
         ELSE Accept

VerifyAllowMismatch(srv, header) ==
    IF ~Truthy(header)
    THEN Reject("Authorization header is missing")
    ELSE LET parts == Split(header.val)
         IN  IF Len(parts) # 2
             THEN Reject("Invalid Authorization header format")
             ELSE LET auth_type == Lower(parts[1])
                      credentials == parts[2]
                  IN  IF srv.auth_scheme = "bearer" /\ auth_type = S_bearer
                      THEN verify_bearer_header(srv, credentials)
                      ELSE IF srv.auth_scheme = "basic" /\ auth_type = S_basic
                           THEN verify_basic_header(srv, credentials)
                           ELSE Accept

verify_auth_header(srv, header) ==
    IF ~Truthy(header)
    THEN Reject("Authorization header is missing")
    ELSE LET parts == Split(header.val)
         IN  IF Len(parts) # 2
             THEN Reject("Invalid Authorization header format")
             ELSE LET auth_type == Lower(parts[1])
                      credentials == parts[2]
                  IN  IF srv.auth_scheme = "bearer" /\ auth_type = S_bearer
                      THEN verify_bearer_header(srv, credentials)
                      ELSE IF srv.auth_scheme = "basic" /\ auth_type = S_basic
                           THEN verify_basic_header(srv, credentials)
                           ELSE Reject("Authentication scheme mismatch")

NoResponse ==
    [status |-> 0, error |-> "none", data |-> "none", envelope |-> "none", handler |-> "none",
     decoded |-> FALSE]
NoRequest == [header |-> None, body |-> "none"]

\* _process_request, with _handle_exception and _create_response
ProcessRequest ==
    /\ server.status = "ok"
    /\ nreq < MaxRequests
    /\ nreq' = nreq + 1
    /\ \E header \in Headers, body \in Bodies :
        LET auth == verify_auth_header(server, header)
        IN  /\ request' = [header |-> header, body |-> body]
            /\ IF ~auth.valid
               THEN /\ response' = [status |-> 401, error |-> auth.msg, data |-> "none",
                                    envelope |-> "plain",
                                    handler |-> "none", decoded |-> FALSE]
                    /\ logged' = <<>>
                    /\ UNCHANGED ncalls
               ELSE IF body = "not-json"
                    THEN /\ response' = [status |-> 400, error |-> "JSONParseError",
                                         data |-> "none", envelope |-> "jsonrpc",
                                         handler |-> "none", decoded |-> TRUE]
                         /\ logged' = <<>>
                         /\ UNCHANGED ncalls
                    ELSE IF body = "no-variant"
                         THEN /\ response' = [status |-> 400, error |-> "InvalidRequestError",
                                              data |-> ValidationDetail,
                                              envelope |-> "jsonrpc",
                                              handler |-> "none", decoded |-> TRUE]
                              /\ logged' = <<>>
                              /\ UNCHANGED ncalls
                         ELSE /\ ncalls' = ncalls + 1
                              /\ \E outcome \in handler_outcomes(dispatch(body)) :
                                  /\ response' = create_response(dispatch(body), outcome)
                                  /\ logged' = log_exception(outcome)
    /\ UNCHANGED <<server, sellerVars, orchVars, connVars>>

(***************************************************************************)
(* PurchasingAgent (purchasing_concierge/purchasing_agent.py).             *)
(***************************************************************************)
\* the remotes agent.py configures, and a name no remote has
KnownRemotes == {"pizza_seller_agent", "burger_seller_agent"}
AgentNames == KnownRemotes \cup {"sushi_seller_agent"}

\* str(uuid.uuid4()): the n-th value drawn, different from every other
Uuid(n) == <<"uuid", n>>
\* identifiers the hosting application may have put in the session state
PresetTaskId == <<"preset", 1>>
PresetMessageId == <<"preset", 2>>
PresetConversationId == <<"preset", 3>>
PresetUserId == <<"preset", 4>>

\* a dict: d[k] = v
Put(d, k, v) == IF k \in DOMAIN d THEN [d EXCEPT ![k] = v] ELSE d @@ (k :> v)

\* dict.update(**other): the keys of other win
Update(d, other) ==
    [k \in DOMAIN d \cup DOMAIN other |-> IF k \in DOMAIN other THEN other[k] ELSE d[k]]

\* the session states a conversation may start from
InitialStates ==
    {<<>>,
     "task_id" :> PresetTaskId,
     "input_message_metadata" :> ("message_id" :> PresetMessageId),
     ("task_id" :> PresetTaskId) @@ ("input_message_metadata" :> ("message_id" :> PresetMessageId)),
     "input_message_metadata" :> (("conversation_id" :> PresetConversationId)
                                     @@ ("user_id" :> PresetUserId)),
     "input_message_metadata" :> (("conversation_id" :> PresetConversationId)
                                     @@ ("message_id" :> PresetMessageId))}

\* the parts a remote may put in a status message or an artifact
TextPart(text) == [type |-> "text", text |-> text]
OtherPart(tag) == [type |-> tag, text |-> ""]
PartLists ==
    {<<TextPart("a")>>, <<OtherPart("file")>>, <<TextPart("a"), TextPart("b")>>,
     <<OtherPart("data"), TextPart("a")>>}

\* what the orchestrator reads of the task that comes back: the status
\* message (None, or its parts) and the artifacts (each one its parts)
TaskBodies ==
    [message : {None} \cup {Some(parts) : parts \in PartLists \cup {<<>>}},
     artifacts : {<<>>} \cup {<<p>> : p \in PartLists}
                        \cup {<<p, q>> : p \in PartLists, q \in PartLists}]
NoBody == [message |-> None, artifacts |-> <<>>]

\* agent.py, lines 23-28: the addresses the agent is built over, and the
\* name on the card each of them serves
remote_agent_addresses == <<"http://localhost:10000", "http://localhost:10001">>
CardName(address) ==
    IF address = "http://localhost:10000" THEN "pizza_seller_agent" ELSE "burger_seller_agent"

\* card_resolver.get_agent_card(): the card, or an httpx exception: the
\* connection is refused (ConnectError) or not made in time (ConnectTimeout,
\* which is no ConnectError)
FetchOutcomes == {"card", "ConnectError", "ConnectTimeout"}

\* __init__, lines 43-53: the tables after the addresses from the i-th on,
\* each with the outcome of its fetch
RECURSIVE discover(_, _, _, _)
discover(addresses, outcomes, i, tables) ==
    IF i > Len(addresses)
    THEN tables
    ELSE IF outcomes[i] = "card"
         THEN discover(addresses, outcomes, i + 1,
                       [tables EXCEPT
                           !.remote_agent_connections = @ \cup {CardName(addresses[i])},
                           !.cards = @ \cup {CardName(addresses[i])},
                           !.fetches = Append(@, outcomes[i])])
         ELSE IF outcomes[i] = "ConnectError"
              THEN discover(addresses, outcomes, i + 1,
                            [tables EXCEPT !.fetches = Append(@, outcomes[i])])
              ELSE [tables EXCEPT !.fetches = Append(@, outcomes[i]), !.raised = TRUE]

\* PurchasingAgent.__init__, lines 31-55
PurchasingAgentInit ==
    /\ turn = "new"
    /\ \E outcomes \in [DOMAIN remote_agent_addresses -> FetchOutcomes] :
          LET tables == discover(remote_agent_addresses, outcomes, 1,
                                 [remote_agent_connections |-> {}, cards |-> {},
                                  fetches |-> <<>>, raised |-> FALSE])
          IN  /\ remote_agent_connections' = tables.remote_agent_connections
              /\ cards' = tables.cards
              /\ fetches' = tables.fetches
              /\ turn' = IF tables.raised THEN "aborted" ELSE "model"
    /\ UNCHANGED <<state, escalate, call, nuuid, ncall, last_send, sellerVars, serverVars, connVars>>

\* the task argument of send_task: the text the model hands to the remote
TaskTexts == {"order a pizza", "order a burger"}

NoCall ==
    [pc |-> "idle", agent_name |-> "", text |-> "", error |-> "none", request |-> <<>>,
     result |-> "none",
     task |-> NoBody, response |-> <<>>]

\* no send_task was routed yet
NoSend == [agent_name |-> "", result |-> "none"]

\* check_active_agent, lines 100-109: the name it reports
check_active_agent(st) ==
    IF /\ "session_id" \in DOMAIN st
       /\ "session_active" \in DOMAIN st
       /\ st["session_active"]
       /\ "active_agent" \in DOMAIN st
    THEN st["active_agent"]
    ELSE "None"

\* before_model_callback, lines 111-116
BeforeModelCallbackRemints(st, fresh) ==
    IF "session_active" \notin DOMAIN st \/ ~st["session_active"]
    THEN Put(Put(st, "session_id", fresh), "session_active", TRUE)
    ELSE st

before_model_callback(st, fresh) ==
    IF "session_active" \notin DOMAIN st \/ ~st["session_active"]
    THEN Put(IF "session_id" \notin DOMAIN st THEN Put(st, "session_id", fresh) ELSE st,
             "session_active", TRUE)
    ELSE st

BeforeModelCallback ==
    /\ turn = "model"
    /\ call.pc # "awaiting"
    /\ state' = before_model_callback(state, Uuid(nuuid + 1))
    /\ nuuid' = IF "session_id" \in DOMAIN state' /\ "session_id" \notin DOMAIN state
                THEN nuuid + 1 ELSE nuuid
    /\ turn' = "llm"
    /\ UNCHANGED <<remote_agent_connections, cards, fetches, escalate, call, ncall, last_send,
                 sellerVars, serverVars, connVars>>

\* send_task, lines 146-149: the routing check, then the active agent
SendTaskStartEager(st, conns, agent_name) ==
    [raised |-> agent_name \notin conns, state |-> Put(st, "active_agent", agent_name)]

SendTaskStartOnSuccess(st, conns, agent_name) ==
    [raised |-> agent_name \notin conns, state |-> st]

send_task_start(st, conns, agent_name) ==
    IF agent_name \notin conns
    THEN [raised |-> TRUE, state |-> st]
    ELSE [raised |-> FALSE, state |-> Put(st, "active_agent", agent_name)]

\* send_task, lines 153-179: the request it builds (two uuid4() values at hand)
SendTaskRequestCarriedWins(st, text, fresh1, fresh2) ==
    LET taskId == IF "task_id" \in DOMAIN st THEN st["task_id"] ELSE fresh1
        sessionId == st["session_id"]
        carried == IF "input_message_metadata" \in DOMAIN st
                   THEN st["input_message_metadata"] ELSE <<>>
        messageId == IF "message_id" \in DOMAIN carried THEN carried["message_id"] ELSE fresh2
        metadata == Update(("conversation_id" :> sessionId) @@ ("message_id" :> messageId), carried)
    IN  [id |-> taskId, sessionId |-> sessionId,
         message |-> [role |-> "user", parts |-> <<TextPart(text)>>, metadata |-> metadata],
         metadata |-> ("conversation_id" :> sessionId)]

send_task_request(st, text, fresh1, fresh2) ==
    LET taskId == IF "task_id" \in DOMAIN st THEN st["task_id"] ELSE fresh1
        sessionId == st["session_id"]
        carried == IF "input_message_metadata" \in DOMAIN st
                   THEN st["input_message_metadata"] ELSE <<>>
        messageId == IF "message_id" \in DOMAIN carried THEN carried["message_id"] ELSE fresh2
        metadata == Update(carried, ("conversation_id" :> sessionId) @@ ("message_id" :> messageId))
    IN  [id |-> taskId, sessionId |-> sessionId,
         message |-> [role |-> "user", parts |-> <<TextPart(text)>>, metadata |-> metadata],
         metadata |-> ("conversation_id" :> sessionId)]

\* send_task up to the remote call: lines 146-180
SendTaskCall ==
    /\ turn = "llm"
    /\ call.pc = "idle"
    /\ ncall < MaxCalls
    /\ ncall' = ncall + 1
    /\ \E agent_name \in AgentNames, text \in TaskTexts :
        \* a connection object is never falsy: line 151 never raises
        LET start == send_task_start(state, remote_agent_connections, agent_name)
        IN  /\ state' = start.state
            /\ IF start.raised
               THEN /\ call' = [NoCall EXCEPT !.pc = "raised", !.agent_name = agent_name,
                                              !.text = text, !.error = "AgentNotFound"]
                    /\ UNCHANGED <<nuuid, last_send>>
               ELSE IF "session_id" \notin DOMAIN state
                    THEN /\ call' = [NoCall EXCEPT !.pc = "raised", !.agent_name = agent_name,
                                                   !.text = text, !.error = "KeyError"]
                         /\ last_send' = [agent_name |-> agent_name, result |-> "raised"]
                         /\ UNCHANGED nuuid
                    ELSE /\ call' = [NoCall EXCEPT !.pc = "awaiting", !.agent_name = agent_name,
                                        !.text = text,
                                        !.request = send_task_request(state', text,
                                                                      Uuid(nuuid + 1),
                                                                      Uuid(nuuid + 2))]
                         /\ last_send' = [agent_name |-> agent_name, result |-> "in progress"]
                         /\ nuuid' = nuuid + 2
    /\ UNCHANGED <<remote_agent_connections, cards, fetches, escalate, turn, sellerVars, serverVars, connVars>>

\* send_task, lines 182-193: the session state after a response
SessionAfterResponseLax(st, task_state) ==
    LET active == Put(st, "session_active", task_state # COMPLETED)
    IN  IF task_state = COMPLETED THEN Put(active, "active_agent", "None") ELSE active

session_after_response(st, task_state) ==
    LET active == Put(st, "session_active",
                      task_state \notin {COMPLETED, CANCELED, FAILED, UNKNOWN})
    IN  IF task_state = INPUT_REQUIRED
        THEN active
        ELSE IF task_state = COMPLETED THEN Put(active, "active_agent", "None") ELSE active

escalate_after_response(flag, task_state) ==
    IF task_state = INPUT_REQUIRED THEN TRUE ELSE flag

\* convert_part, lines 212-217: a string is the sequence of its pieces
ConvertPartDropsTag(part) ==
    IF part.type = "text" THEN <<part.text>> ELSE <<"Unknown type: ">>

convert_part(part) ==
    IF part.type = "text" THEN <<part.text>> ELSE <<"Unknown type: ", part.type>>

\* convert_parts, lines 205-209
convert_parts(parts) == [i \in 1..Len(parts) |-> convert_part(parts[i])]

\* the parts of the artifacts from the n-th on, converted in order
RECURSIVE convert_artifacts(_, _)
convert_artifacts(artifacts, n) ==
    IF n > Len(artifacts)
    THEN <<>>
    ELSE convert_parts(artifacts[n]) \o convert_artifacts(artifacts, n + 1)

\* send_task, lines 195-202: the list it returns
send_task_response(task) ==
    (IF task.message.some THEN convert_parts(task.message.val) ELSE <<>>)
        \o convert_artifacts(task.artifacts, 1)

\* send_task from the remote call on: the call fails, or a task comes back
SendTaskReturn ==
    /\ call.pc = "awaiting"
    /\ \/ /\ call' = [call EXCEPT !.pc = "raised", !.error = "RemoteError"]
          /\ last_send' = [last_send EXCEPT !.result = "raised"]
          /\ UNCHANGED <<state, escalate>>
       \/ \E task_state \in TaskStates, task \in TaskBodies :
          /\ state' = session_after_response(state, task_state)
          /\ escalate' = escalate_after_response(escalate, task_state)
          /\ call' = [call EXCEPT !.pc = "returned", !.result = task_state, !.task = task,
                                  !.response = send_task_response(task)]
          /\ last_send' = [last_send EXCEPT !.result = task_state]
    /\ UNCHANGED <<remote_agent_connections, cards, fetches, turn, nuuid, ncall, sellerVars, serverVars, connVars>>

\* the harness takes the tool's result and its actions; the next tool call
\* gets a tool context of its own, with no action set
AfterTool ==
    /\ call.pc \in {"returned", "raised"}
    /\ call' = NoCall
    /\ escalate' = FALSE
    /\ \E next \in {"llm", "model"} : turn' = next
    /\ UNCHANGED <<remote_agent_connections, cards, fetches, state, nuuid, ncall, last_send,
                 sellerVars, serverVars, connVars>>

(***************************************************************************)
(* Purchasing concierge: remote_agent_connection.py.  Objects are records; *)
(* hasattr(x, "f") is "f" \in DOMAIN x, and the None a response without a  *)
(* result carries is a record with none of the fields of a task.           *)
(***************************************************************************)
MetaKeys == {"conversation_id", "message_id"}
MessageMetaKeys == MetaKeys \cup {"last_message_id"}
\* the identifiers in use before the call: uuid4 values drawn earlier
MetaValues == {Uuid(1), Uuid(2)}
UuidsInUse == 2

\* the dicts over some keys, and an optional metadata field over them
Dicts(keys) == UNION {[d -> MetaValues] : d \in SUBSET keys}
Metadatas(keys) == {None} \cup {Some(d) : d \in Dicts(keys)}

\* Python truthiness of an optional dict: neither None nor {}
Nonempty(m) == m.some /\ DOMAIN m.val # {}

NoResult == [none |-> TRUE]
IsNone(x) == "none" \in DOMAIN x

\* merge_metadata, lines 67-73: the target object after the call
MergeMetadataKeep(target, source) ==
    IF "metadata" \notin DOMAIN target \/ "metadata" \notin DOMAIN source
    THEN target
    ELSE IF Nonempty(target.metadata) /\ Nonempty(source.metadata)
         THEN [target EXCEPT !.metadata = Some(Update(source.metadata.val, @.val))]
         ELSE IF Nonempty(source.metadata)
              THEN [target EXCEPT !.metadata = Some(source.metadata.val)]
              ELSE target

MergeMetadataElse(target, source) ==
    IF "metadata" \notin DOMAIN target \/ "metadata" \notin DOMAIN source
    THEN target
    ELSE IF Nonempty(target.metadata) /\ Nonempty(source.metadata)
         THEN [target EXCEPT !.metadata = Some(Update(@.val, source.metadata.val))]
         ELSE [target EXCEPT !.metadata = Some(source.metadata.val)]

merge_metadata(target, source) ==
    IF "metadata" \notin DOMAIN target \/ "metadata" \notin DOMAIN source
    THEN target
    ELSE IF Nonempty(target.metadata) /\ Nonempty(source.metadata)
         THEN [target EXCEPT !.metadata = Some(Update(@.val, source.metadata.val))]
         ELSE IF Nonempty(source.metadata)
              THEN [target EXCEPT !.metadata = Some(source.metadata.val)]
              ELSE target

\* merge_metadata, lines 70-73: whether the target's metadata is, after the
\* call, the very dict object of the source (update() writes into the
\* target's own dict, dict(**...) makes a new one)
MergeSharesAssigned(target, source) ==
    IF "metadata" \notin DOMAIN target \/ "metadata" \notin DOMAIN source
    THEN FALSE
    ELSE IF Nonempty(target.metadata) /\ Nonempty(source.metadata)
         THEN FALSE
         ELSE Nonempty(source.metadata)

merge_shares(target, source) ==
    IF "metadata" \notin DOMAIN target \/ "metadata" \notin DOMAIN source
    THEN FALSE
    ELSE IF Nonempty(target.metadata) /\ Nonempty(source.metadata)
         THEN FALSE
         ELSE IF Nonempty(source.metadata)
              THEN FALSE
              ELSE FALSE

\* merge_metadata applied to objects drawn at will: a target and two sources
MergeObjects == {[metadata |-> m] : m \in Metadatas(MetaKeys)}

MergeSource(name) ==
    /\ Len(merge_run.log) < MaxMerges
    /\ "joined" \notin {merge_run.log[i] : i \in DOMAIN merge_run.log}
    /\ merge_run' = [merge_run EXCEPT
                        !.target = merge_metadata(@, merge_run[name]),
                        !.log = Append(@, name)]
    /\ UNCHANGED <<conn, sellerVars, serverVars, orchVars>>

\* the second source merged into the first, and the outcome into the target
MergeJoined ==
    /\ merge_run.log = <<>>
    /\ merge_run' = [merge_run EXCEPT
                        !.target = merge_metadata(@, merge_metadata(merge_run.s1, merge_run.s2)),
                        !.log = <<"joined">>]
    /\ UNCHANGED <<conn, sellerVars, serverVars, orchVars>>

\* the requests a caller may pass and the results a remote may answer with
ConnRequests ==
    {[metadata |-> m, message |-> [metadata |-> mm]] :
        m \in Metadatas({"conversation_id"}), mm \in Metadatas(MetaKeys)}

StatusMessages == {NoResult} \cup {[metadata |-> m] : m \in Metadatas(MessageMetaKeys)}

ConnResults ==
    {NoResult} \cup
    {[metadata |-> m, status |-> [state |-> INPUT_REQUIRED, message |-> msg]] :
        m \in Metadatas(MetaKeys), msg \in StatusMessages}

NoConn ==
    [pc |-> "ready", request |-> [none |-> TRUE], task_callback |-> FALSE,
     received |-> NoResult, result |-> NoResult, callbacks |-> 0,
     callback_arg |-> NoResult, request_after |-> [none |-> TRUE]]

\* RemoteAgentConnections.send_task, lines 45-60: the result after the merges
\* and the message-id step (one uuid4() value at hand)
HasStatusMessage(result) ==
    /\ "status" \in DOMAIN result
    /\ "message" \in DOMAIN result.status
    /\ ~IsNone(result.status.message)

ChainMessageIdNoLast(m, fresh) ==
    LET md0 == IF Nonempty(m.metadata) THEN m.metadata.val ELSE <<>>
    IN  [m EXCEPT !.metadata = Some(Put(md0, "message_id", fresh))]

chain_message_id(m, fresh) ==
    LET md0 == IF Nonempty(m.metadata) THEN m.metadata.val ELSE <<>>
        md1 == IF "message_id" \in DOMAIN md0
               THEN Put(md0, "last_message_id", md0["message_id"]) ELSE md0
    IN  [m EXCEPT !.metadata = Some(Put(md1, "message_id", fresh))]

after_response(req, received, fresh) ==
    LET result == merge_metadata(received, req)
    IN  IF HasStatusMessage(result)
        THEN [result EXCEPT !.status.message =
                 chain_message_id(merge_metadata(@, req.message), fresh)]
        ELSE result

\* send_task, lines 46-60: the request object once the call is over. The
\* writes of lines 57-60 go to the dict of the response's message, and reach
\* the request's message only if the two are one object
request_after_response(req, received, fresh) ==
    LET result == merge_metadata(received, req)
    IN  IF /\ HasStatusMessage(result)
           /\ merge_shares(result.status.message, req.message)
        THEN [req EXCEPT !.message.metadata =
                 chain_message_id(merge_metadata(result.status.message, req.message),
                                  fresh).metadata]
        ELSE req

\* send_task up to the remote call, lines 40-45
ConnSendTask ==
    /\ conn.pc = "ready"
    /\ conn' = [conn EXCEPT !.pc = "awaiting"]
    /\ UNCHANGED <<merge_run, sellerVars, serverVars, orchVars>>

\* send_task from the remote call on, lines 45-64: the call raises, or a
\* response comes back
ConnReturn ==
    /\ conn.pc = "awaiting"
    /\ \/ /\ conn' = [conn EXCEPT !.pc = "raised", !.request_after = conn.request]
          /\ UNCHANGED nuuid
       \/ \E received \in ConnResults :
          /\ conn' = [conn EXCEPT
                         !.pc = "returned",
                         !.received = received,
                         !.result = after_response(conn.request, received, Uuid(nuuid + 1)),
                         !.callbacks = IF conn.task_callback THEN @ + 1 ELSE @,
                         !.callback_arg =
                             IF conn.task_callback
                             THEN after_response(conn.request, received, Uuid(nuuid + 1))
                             ELSE @,
                         !.request_after =
                             request_after_response(conn.request, received, Uuid(nuuid + 1))]
          /\ nuuid' = IF HasStatusMessage(received) THEN nuuid + 1 ELSE nuuid
    /\ UNCHANGED <<merge_run, remote_agent_connections, cards, fetches, state, escalate, call, turn, ncall,
                 last_send,
                   sellerVars, serverVars>>

(***************************************************************************)
(* The specifications, one per component.                                  *)
(***************************************************************************)
SellerIdle ==
    /\ tasks = <<>>
    /\ push_notification_infos = <<>>
    /\ slots = [s \in Slots |-> IdleSlot]
    /\ delivered = <<>>
    /\ verified = {}
    /\ nsent = 0

ServerIdle ==
    /\ server = NoServer
    /\ request = NoRequest
    /\ response = NoResponse
    /\ logged = <<>>
    /\ ncalls = 0
    /\ nreq = 0

ConnIdle ==
    conn = NoConn

MergeIdle ==
    merge_run = [target0 |-> NoResult, s1 |-> NoResult, s2 |-> NoResult,
                 target |-> NoResult, log |-> <<>>]

OrchIdle ==
    /\ remote_agent_connections = KnownRemotes
    /\ cards = KnownRemotes
    /\ fetches = <<"card", "card">>
    /\ state = <<>>
    /\ escalate = FALSE
    /\ call = NoCall
    /\ turn = "model"
    /\ nuuid = 0
    /\ ncall = 0
    /\ last_send = NoSend

Init == SellerIdle /\ ServerIdle /\ OrchIdle /\ ConnIdle /\ MergeIdle

SellerNext ==
    \E s \in Slots : Begin(s) \/ Verify(s) \/ Working(s) \/ Invoke(s)

SellerSpec == Init /\ [][SellerNext]_vars

ServerNext ==
    Construct \/ ProcessRequest

ServerSpec == Init /\ [][ServerNext]_vars

\* the orchestrator before __init__, and the session it will serve
OrchInit ==
    /\ SellerIdle
    /\ ServerIdle
    /\ ConnIdle
    /\ MergeIdle
    /\ remote_agent_connections = {}
    /\ cards = {}
    /\ fetches = <<>>
    /\ state \in InitialStates
    /\ escalate = FALSE
    /\ call = NoCall
    /\ turn = "new"
    /\ nuuid = 0
    /\ ncall = 0
    /\ last_send = NoSend

OrchNext ==
    PurchasingAgentInit \/ BeforeModelCallback \/ SendTaskCall \/ SendTaskReturn \/ AfterTool

OrchSpec == OrchInit /\ [][OrchNext]_vars

\* a RemoteAgentConnections object with one send_task call to make
ConnInit ==
    /\ SellerIdle
    /\ ServerIdle
    /\ remote_agent_connections = KnownRemotes
    /\ cards = KnownRemotes
    /\ fetches = <<"card", "card">>
    /\ state = <<>>
    /\ escalate = FALSE
    /\ call = NoCall
    /\ turn = "model"
    /\ nuuid = UuidsInUse
    /\ ncall = 0
    /\ last_send = NoSend
    /\ MergeIdle
    /\ \E req \in ConnRequests, cb \in BOOLEAN :
          conn = [NoConn EXCEPT !.request = req, !.task_callback = cb]

ConnNext ==
    ConnSendTask \/ ConnReturn

ConnSpec == ConnInit /\ [][ConnNext]_vars

\* merge_metadata over every target and every two sources
MergeInit ==
    /\ SellerIdle
    /\ ServerIdle
    /\ OrchIdle
    /\ ConnIdle
    /\ \E t \in MergeObjects, s1 \in MergeObjects, s2 \in MergeObjects :
          merge_run = [target0 |-> t, s1 |-> s1, s2 |-> s2, target |-> t, log |-> <<>>]

MergeNext ==
    (\E name \in {"s1", "s2"} : MergeSource(name)) \/ MergeJoined

MergeSpec == MergeInit /\ [][MergeNext]_vars

(***************************************************************************)
(* The claims about the seller's task store (under SellerSpec).            *)
(***************************************************************************)
\* C1: once the stored state of a task is COMPLETED, CANCELED, FAILED or
\* UNKNOWN, no later step changes its status; in particular a tasks/send
\* re-using the id of a COMPLETED task does not move it to WORKING.
C1_TerminalStatusNeverChanges ==
    [][\A id \in DOMAIN tasks :
          tasks[id].status.state \in TerminalStates
              => id \in DOMAIN tasks' /\ tasks'[id].status = tasks[id].status]_vars

\* a tasks/send passed validation in this step, in slot s
AcceptedSend(s) ==
    /\ slots[s].pc \in {"idle", "done"}
    /\ slots'[s].pc \in {"verify", "working"}

\* C2: every accepted tasks/send leaves exactly one record for its id: for a
\* new id the store gains that one key, for a known id the store keeps its
\* keys and the record is the old one with the inbound message appended to
\* its history (one entry longer); no other record changes, no error is
\* returned, and no other step adds or removes a record.
C2_SendUpsertsOneRecord ==
    [][/\ \A s \in Slots :
            AcceptedSend(s) =>
                LET id == slots'[s].id
                IN  /\ DOMAIN tasks' = DOMAIN tasks \cup {id}
                    /\ slots'[s].resp = "none"
                    /\ \A other \in DOMAIN tasks \ {id} : tasks'[other] = tasks[other]
                    /\ id \in DOMAIN tasks =>
                           /\ tasks'[id] = [tasks[id] EXCEPT !.history =
                                               Append(@, UserMessage(slots'[s].kind))]
                           /\ Len(tasks'[id].history) = Len(tasks[id].history) + 1
       /\ (\A s \in Slots : ~AcceptedSend(s)) => DOMAIN tasks' = DOMAIN tasks]_vars

\* an accepted send for a known id has just acted: its task holds two
\* inbound messages
C2_Witness ==
    \E s \in Slots :
        /\ slots[s].pc \in {"verify", "working"}
        /\ slots[s].id \in DOMAIN tasks
        /\ Len(SelectSeq(tasks[slots[s].id].history, LAMBDA m : m.role = "user")) = 2

\* C3: a push-notification config is stored for a task id iff an ownership
\* challenge for that id succeeded, and the stored url is one whose
\* challenge succeeded; a request whose challenge succeeded left a config
\* stored for its task, and one whose challenge failed was told so
\* (set_push_notification_info returned false) and stored nothing.
C3_PushStoredIffVerified ==
    /\ \A id \in TaskIds :
          /\ has_push_notification_info(push_notification_infos, id)
                 <=> (\E u \in Urls : <<id, u>> \in verified)
          /\ has_push_notification_info(push_notification_infos, id)
                 => <<id, push_notification_infos[id].url>> \in verified
    /\ \A s \in Slots :
          /\ slots[s].chal = "ok" =>
                 /\ has_push_notification_info(push_notification_infos, slots[s].id)
                 /\ <<slots[s].id, slots[s].push.url>> \in verified
          /\ slots[s].chal = "failed" => slots[s].resp = "InvalidParams"

\* one challenge succeeded and its config is stored, another failed and
\* nothing is stored for its task
C3_Witness ==
    \E s1, s2 \in Slots :
        /\ slots[s1].chal = "ok"
        /\ push_notification_infos[slots[s1].id].url = slots[s1].push.url
        /\ slots[s2].chal = "failed"
        /\ ~has_push_notification_info(push_notification_infos, slots[s2].id)

SchemeName(srv) == IF srv.auth_scheme = "bearer" THEN S_bearer ELSE S_basic

\* the header is missing, is not two whitespace-separated parts, or names a
\* scheme other than the configured one
Unauthenticated(srv, header) ==
    \/ ~header.some
    \/ Len(Split(header.val)) # 2
    \/ Lower(Split(header.val)[1]) # SchemeName(srv)

\* C5: a POST request whose Authorization header is missing, is not exactly
\* two parts, or names another scheme is answered 401 before the body is
\* decoded, whatever the body, and no task-manager handler is invoked.
C5_AuthBeforeDispatch ==
    [][(nreq' = nreq + 1 /\ Unauthenticated(server, request'.header)) =>
          /\ response'.status = 401
          /\ ~response'.decoded
          /\ response'.handler = "none"
          /\ ncalls' = ncalls]_vars

\* a request with another scheme's header and a body that is not JSON was
\* answered 401, with no handler run
C5_Witness ==
    /\ request.header = Some(H_DigestX)
    /\ request.body = "not-json"
    /\ response.status = 401
    /\ ncalls = 0

\* the request carries a two-part header naming the scheme
CarriesScheme(header, scheme) ==
    /\ header.some
    /\ Len(Split(header.val)) = 2
    /\ Lower(Split(header.val)[1]) = scheme

\* C6: on a server constructed with the bearer scheme, whatever api_key
\* construction accepted, a request with a Bearer header is admitted iff its
\* token equals the configured api_key, and gets 401 otherwise.
C6_BearerExactMatch ==
    (server.status = "ok" /\ server.auth_scheme = "bearer" /\ nreq > 0
        /\ CarriesScheme(request.header, S_bearer)) =>
        (response.status # 401 <=> Split(request.header.val)[2] = server.api_key.val)

\* the username and password a Basic credential stands for, if it decodes
BasicPair(credentials) ==
    LET raw == b64decode(credentials)
        decoded == utf8decode(raw.val)
    IN  IF raw.ok /\ decoded.ok
        THEN SplitColon(decoded.val)
        ELSE [ok |-> FALSE, username |-> <<>>, password |-> <<>>]

\* C7: on a server constructed with the basic scheme, whatever username and
\* password construction accepted, a request with a Basic header is admitted
\* iff its credential decodes to user:pass with both equal to the configured
\* ones; a credential that does not decode, or has no colon, gets 401.
C7_BasicExactMatch ==
    (server.status = "ok" /\ server.auth_scheme = "basic" /\ nreq > 0
        /\ CarriesScheme(request.header, S_basic)) =>
        LET pair == BasicPair(Split(request.header.val)[2])
        IN  response.status # 401 <=>
                /\ pair.ok
                /\ pair.username = server.auth_username.val
                /\ pair.password = server.auth_password.val

\* the configurations the claim lets construction accept
AcceptableConfig(srv) ==
    /\ Len(srv.schemes) = 1
    /\ \/ Lower(srv.schemes[1]) = S_bearer /\ srv.api_key.some
       \/ Lower(srv.schemes[1]) = S_basic /\ srv.auth_username.some /\ srv.auth_password.some

\* C8: construction succeeds exactly for one declared scheme, bearer with an
\* api_key or basic with a username and a password, and fails with the
\* configuration error (the ValueError of __init__) in every other case.
C8_ConstructionOutcome ==
    server.status # "none" =>
        server.status = IF AcceptableConfig(server) THEN "ok" ELSE "ValueError"

(***************************************************************************)
(* The claims about the orchestrator (under OrchSpec).                     *)
(***************************************************************************)
\* C9: a send_task naming an agent that is not in the routing table raises
\* the agent-not-found error, leaves the session state (every key of it) and
\* the escalation flag as they were, and issues no remote call.
C9_UnknownAgentLeavesSession ==
    [][(call.pc = "idle" /\ call'.pc # "idle"
            /\ call'.agent_name \notin remote_agent_connections) =>
          /\ call'.pc = "raised"
          /\ call'.error = "AgentNotFound"
          /\ call'.request = <<>>
          /\ state' = state
          /\ escalate' = escalate]_vars

\* a send_task to an unknown agent has raised in a session whose active
\* agent, set by an earlier call, is still the earlier one
C9_Witness ==
    /\ call.pc = "raised"
    /\ call.error = "AgentNotFound"
    /\ "active_agent" \in DOMAIN state
    /\ state["active_agent"] \in KnownRemotes

\* C10: when send_task has received the remote's task, session_active is
\* true iff the task state is not COMPLETED, CANCELED, FAILED or UNKNOWN, the
\* escalation flag is set iff the state is INPUT_REQUIRED, and active_agent
\* is 'None' for COMPLETED and the addressed agent for every other state.
C10_SessionAfterResponse ==
    call.pc = "returned" =>
        /\ state["session_active"] = (call.result \notin TerminalStates)
        /\ escalate = (call.result = INPUT_REQUIRED)
        /\ state["active_agent"] =
               IF call.result = COMPLETED THEN "None" ELSE call.agent_name

\* a send_task came back with a FAILED task: the session is inactive and the
\* addressed agent still the active one
C10_Witness ==
    /\ call.pc = "returned"
    /\ call.result = FAILED
    /\ ~state["session_active"]
    /\ state["active_agent"] = call.agent_name

\* C11: when a send_task ends with the remote task in INPUT_REQUIRED, the
\* task id it sent is retained in the session, so that the next send_task of
\* the session sends the same id and continues the same remote task.
C11_TaskIdRetained ==
    (call.pc = "returned" /\ call.result = INPUT_REQUIRED)
        => /\ "task_id" \in DOMAIN state
           /\ state["task_id"] = call.request.id

(***************************************************************************)
(* The claims about the remote connection (under ConnSpec and MergeSpec).  *)
(***************************************************************************)
\* the mapping an optional metadata field stands for: None holds no key
AsMapping(m) == IF m.some THEN m.val ELSE <<>>

\* t is the union of t0 and s in which the value of s wins
IsUnionSourceWins(t, t0, s) ==
    /\ DOMAIN t = DOMAIN t0 \cup DOMAIN s
    /\ \A k \in DOMAIN s : t[k] = s[k]
    /\ \A k \in DOMAIN t0 \ DOMAIN s : t[k] = t0[k]

\* C12: merge_metadata(target, source) leaves target.metadata the union of
\* both mappings in which the source's value wins on every common key, no key
\* of the target is lost, and a source with no or empty metadata leaves the
\* target unchanged; hence, after RemoteAgentConnections.send_task, the
\* request's conversation_id is that of the returned task and of its status
\* message.
C12_MergeSourceWins ==
    (conn.pc = "returned" /\ ~IsNone(conn.received)) =>
        LET req == conn.request
            was == conn.received
            now == conn.result
        IN  /\ IsUnionSourceWins(AsMapping(now.metadata), AsMapping(was.metadata),
                                 AsMapping(req.metadata))
            /\ ~Nonempty(req.metadata) => now.metadata = was.metadata
            /\ "conversation_id" \in DOMAIN AsMapping(req.metadata) =>
                   now.metadata.val["conversation_id"] = req.metadata.val["conversation_id"]
            /\ ~IsNone(was.status.message) =>
                  LET m == AsMapping(now.status.message.metadata)
                      m0 == AsMapping(was.status.message.metadata)
                      s == AsMapping(req.message.metadata)
                      chained == {"message_id", "last_message_id"}
                  IN  /\ DOMAIN m \cup chained = DOMAIN m0 \cup DOMAIN s \cup chained
                      /\ \A k \in DOMAIN s \ chained : m[k] = s[k]
                      /\ \A k \in DOMAIN m0 \ (DOMAIN s \cup chained) : m[k] = m0[k]
                      /\ "conversation_id" \in DOMAIN s =>
                             m["conversation_id"] = s["conversation_id"]

\* a task came back whose metadata and whose message's metadata both held a
\* conversation_id other than the request's, next to a key of their own
C12_Witness ==
    /\ conn.pc = "returned"
    /\ ~IsNone(conn.received)
    /\ ~IsNone(conn.received.status.message)
    /\ Nonempty(conn.request.metadata)
    /\ Nonempty(conn.received.metadata)
    /\ DOMAIN conn.received.metadata.val = {"conversation_id", "message_id"}
    /\ conn.received.metadata.val["conversation_id"] # conn.request.metadata.val["conversation_id"]
    /\ Nonempty(conn.received.status.message.metadata)
    /\ Nonempty(conn.request.message.metadata)
    /\ "conversation_id" \in DOMAIN conn.request.message.metadata.val
    /\ "conversation_id" \in DOMAIN conn.received.status.message.metadata.val
    /\ conn.received.status.message.metadata.val["conversation_id"]
          # conn.request.message.metadata.val["conversation_id"]
    /\ conn.result.metadata.val["conversation_id"] = conn.request.metadata.val["conversation_id"]

\* C13: merging is idempotent and associative: merging the same source into
\* a target twice leaves the target as merging it once does, and merging s1
\* and then s2 into a target leaves it as merging (s1 merged with s2) does.
C13_MergeIdempotentAssociative ==
    /\ merge_run.log = <<"s1", "s1">> =>
           merge_run.target = merge_metadata(merge_run.target0, merge_run.s1)
    /\ merge_run.log = <<"s1", "s2">> =>
           merge_run.target = merge_metadata(merge_run.target0,
                                             merge_metadata(merge_run.s1, merge_run.s2))

\* two different sources were merged into a target, all three with a value of
\* their own for one key
C13_Witness ==
    /\ merge_run.log = <<"s1", "s2">>
    /\ Nonempty(merge_run.target0.metadata)
    /\ Nonempty(merge_run.s1.metadata)
    /\ Nonempty(merge_run.s2.metadata)
    /\ \E k \in DOMAIN merge_run.target0.metadata.val \cap DOMAIN merge_run.s1.metadata.val :
          /\ k \in DOMAIN merge_run.s2.metadata.val
          /\ merge_run.target0.metadata.val[k] # merge_run.s1.metadata.val[k]
          /\ merge_run.s1.metadata.val[k] # merge_run.s2.metadata.val[k]
          /\ merge_run.target.metadata.val[k] = merge_run.s2.metadata.val[k]
    /\ DOMAIN merge_run.s1.metadata.val # DOMAIN merge_run.s2.metadata.val

\* the status message the remote sent, the one send_task returned, and the
\* metadata of the request's message
ReceivedMessage == AsMapping(conn.received.status.message.metadata)
ReturnedMessage == AsMapping(conn.result.status.message.metadata)
RequestMessage == AsMapping(conn.request.message.metadata)
MessageReturned ==
    conn.pc = "returned" /\ ~IsNone(conn.received) /\ ~IsNone(conn.received.status.message)

\* C14 as stated: when the response's status message carries a message id m1,
\* the returned status message has last_message_id = m1 and a freshly
\* generated message_id other than m1; when it carries none, the returned
\* message gets a fresh message_id and no last_message_id is made of an id of
\* the response.
C14_LastIsResponseId ==
    MessageReturned =>
        /\ "message_id" \in DOMAIN ReturnedMessage
        /\ ReturnedMessage["message_id"] \notin MetaValues
        /\ "message_id" \in DOMAIN ReceivedMessage =>
               /\ "last_message_id" \in DOMAIN ReturnedMessage
               /\ ReturnedMessage["last_message_id"] = ReceivedMessage["message_id"]
        /\ ("message_id" \notin DOMAIN ReceivedMessage
                /\ "last_message_id" \in DOMAIN ReturnedMessage) =>
               \/ /\ "message_id" \in DOMAIN RequestMessage
                  /\ ReturnedMessage["last_message_id"] = RequestMessage["message_id"]
               \/ /\ "last_message_id" \in DOMAIN ReceivedMessage
                  /\ ReturnedMessage["last_message_id"] = ReceivedMessage["last_message_id"]

\* C14 as amended: the returned status message gets a freshly generated
\* message_id, and its last_message_id is the message_id its metadata held
\* after the merge: the request message's when that carries one, else the
\* response's own m1; when neither carries one, last_message_id is left as the
\* merge left it.
C14_LastIsMergedId ==
    MessageReturned =>
        LET carried == [k \in (DOMAIN ReceivedMessage \cup DOMAIN RequestMessage)
                               \cap {"last_message_id"} |->
                           IF k \in DOMAIN RequestMessage
                           THEN RequestMessage[k] ELSE ReceivedMessage[k]]
        IN  /\ "message_id" \in DOMAIN ReturnedMessage
            /\ ReturnedMessage["message_id"] \notin MetaValues
            /\ ReturnedMessage["message_id"] = Uuid(nuuid)
            /\ IF "message_id" \in DOMAIN RequestMessage
               THEN /\ "last_message_id" \in DOMAIN ReturnedMessage
                    /\ ReturnedMessage["last_message_id"] = RequestMessage["message_id"]
               ELSE IF "message_id" \in DOMAIN ReceivedMessage
                    THEN /\ "last_message_id" \in DOMAIN ReturnedMessage
                         /\ ReturnedMessage["last_message_id"] = ReceivedMessage["message_id"]
                    ELSE /\ "last_message_id" \in DOMAIN ReturnedMessage
                                <=> "last_message_id" \in DOMAIN carried
                         /\ "last_message_id" \in DOMAIN carried =>
                                ReturnedMessage["last_message_id"] = carried["last_message_id"]

\* a request message with a message_id met a response message with another one
C14_Witness ==
    /\ MessageReturned
    /\ "message_id" \in DOMAIN RequestMessage
    /\ "message_id" \in DOMAIN ReceivedMessage
    /\ RequestMessage["message_id"] # ReceivedMessage["message_id"]
    /\ ReturnedMessage["last_message_id"] = RequestMessage["message_id"]

\* the deliveries issued for a task id, in order
DeliveriesOf(log, id) == SelectSeq(log, LAMBDA d : d.id = id)

\* C15: for a task with a stored push config a notification is delivered on
\* every state transition: a tasks/send accepted for it issues a delivery
\* with state WORKING right after its WORKING write and ends with a delivery
\* of the final state (INPUT_REQUIRED or COMPLETED) right after the final
\* write, two in all; for a task with no stored config none is ever issued.
C15_TwoDeliveriesPerSend ==
    [][\A s \in Slots :
          LET id == slots[s].id
              url == push_notification_infos[id].url
          IN  /\ (slots[s].pc = "working" /\ slots'[s].pc # "working") =>
                    IF has_push_notification_info(push_notification_infos, id)
                    THEN /\ tasks'[id].status.state = WORKING
                         /\ delivered' = Append(delivered,
                                                [id |-> id, url |-> url, state |-> WORKING])
                    ELSE delivered' = delivered
              /\ (slots[s].pc = "invoke" /\ slots'[s].pc # "invoke") =>
                    IF has_push_notification_info(push_notification_infos, id)
                    THEN /\ tasks'[id].status.state \in {INPUT_REQUIRED, COMPLETED}
                         /\ delivered' = Append(delivered,
                                [id |-> id, url |-> url, state |-> tasks'[id].status.state])
                    ELSE delivered' = delivered]_vars

\* the step of slot s issued a delivery, and the delivery failed
FailedDelivery(s) ==
    /\ delivered' # delivered
    /\ slots'[s].pc # slots[s].pc
    /\ slots'[s].notified = "failed"

C17_ProtocolFailureIs400 ==
    nreq > 0 =>
        /\ verify_auth_header(server, request.header).valid =>
               (response.error # "none" =>
                    response.status = 400 /\ response.envelope = "jsonrpc")
        /\ response.status = 401 <=> ~verify_auth_header(server, request.header).valid
        /\ response.status = 401 => response.envelope = "plain"

\* the handler the protocol names for each request variant
HandlerFor ==
    [m \in Methods |->
        CASE m = "tasks/get" -> "on_get_task"
          [] m = "tasks/send" -> "on_send_task"
          [] m = "tasks/sendSubscribe" -> "on_send_task_subscribe"
          [] m = "tasks/cancel" -> "on_cancel_task"
          [] m = "tasks/pushNotification/set" -> "on_set_task_push_notification"
          [] m = "tasks/pushNotification/get" -> "on_get_task_push_notification"
          [] m = "tasks/resubscribe" -> "on_resubscribe_to_task"]

\* C20: for every authenticated request the dispatcher invokes exactly one
\* task-manager handler, the one of the decoded request variant, and invokes
\* none when the body is not valid JSON or matches no variant.
C20_OneMatchingHandler ==
    [][(nreq' = nreq + 1 /\ verify_auth_header(server, request'.header).valid) =>
          IF request'.body \in Methods
          THEN /\ ncalls' = ncalls + 1
               /\ response'.handler = HandlerFor[request'.body]
          ELSE /\ ncalls' = ncalls
               /\ response'.handler = "none"]_vars

\* an authenticated tasks/sendSubscribe request reached its handler, the only
\* one invoked
C20_Witness ==
    /\ nreq = 1
    /\ verify_auth_header(server, request.header).valid
    /\ Truthy(server.api_key)
    /\ request.body = "tasks/sendSubscribe"
    /\ response.handler = "on_send_task_subscribe"
    /\ ncalls = 1

(***************************************************************************)
(* More claims about the orchestrator (under OrchSpec).                    *)
(***************************************************************************)
\* the parts of some artifacts, artifact after artifact
RECURSIVE PartsOf(_)
PartsOf(artifacts) ==
    IF artifacts = <<>> THEN <<>> ELSE Head(artifacts) \o PartsOf(Tail(artifacts))

\* the parts of the task that came back: those of the status message, then
\* those of the artifacts
ReturnedParts ==
    (IF call.task.message.some THEN call.task.message.val ELSE <<>>) \o PartsOf(call.task.artifacts)

\* the returned list has one string per part, in order, each text part as its
\* text and each other part as the marker followed by its tag
OneStringPerPart(marker) ==
    /\ Len(call.response) = Len(ReturnedParts)
    /\ \A i \in 1..Len(ReturnedParts) :
          call.response[i] = IF ReturnedParts[i].type = "text"
                             THEN <<ReturnedParts[i].text>>
                             ELSE <<marker, ReturnedParts[i].type>>

\* C18 as stated: the sequence send_task returns has exactly one string per
\* part of the response, the parts of the status message in order and then
\* the parts of each artifact in artifact order; a text part yields its text
\* and a non-text part the marker "unsupported part type: <tag>".
C18_UnsupportedPartMarker ==
    call.pc = "returned" => OneStringPerPart("unsupported part type: ")

\* C18 as amended: the same sequence, one string per part in the same order,
\* in which a non-text part yields "Unknown type: <tag>".
C18_UnknownTypeMarker ==
    call.pc = "returned" => OneStringPerPart("Unknown type: ")

\* a task came back with a status message and two artifacts, with text and
\* non-text parts among them
C18_Witness ==
    /\ call.pc = "returned"
    /\ call.task.message.some
    /\ Len(call.task.message.val) = 2
    /\ Len(call.task.artifacts) = 2
    /\ call.task.artifacts[1] # call.task.artifacts[2]
    /\ \E i \in 1..Len(ReturnedParts), j \in 1..Len(ReturnedParts) :
          /\ i < j
          /\ ReturnedParts[i].type = "data"
          /\ ReturnedParts[j].type = "file"
          /\ call.response[i] = <<"Unknown type: ", "data">>
          /\ call.response[j] = <<"Unknown type: ", "file">>
    /\ Len(call.response) >= 5

\* C19: construction over the remote addresses never aborts because some
\* remotes cannot be reached: it completes, and the routing table and the
\* card table have the same key set, the names of the remotes whose
\* discovery fetch succeeded.
C19_ConstructionCompletes ==
    turn # "new" =>
        /\ turn # "aborted"
        /\ Len(fetches) = Len(remote_agent_addresses)
        /\ remote_agent_connections = cards
        /\ cards = {CardName(remote_agent_addresses[i]) :
                        i \in {j \in DOMAIN fetches : fetches[j] = "card"}}

(***************************************************************************)
(* More claims about the A2A server (under ServerSpec).                    *)
(***************************************************************************)
\* C21: when the executor raises during a tasks/send, the caller gets a
\* generic internal-error JSON-RPC envelope with none of the exception's
\* detail in it; the detail is in the operator log only.
C21_ExecutorFailureIsGeneric ==
    (response.handler = "on_send_task" /\ response.error = "InternalError") =>
        /\ response.envelope = "jsonrpc"
        /\ response.status = 400
        /\ response.data = "none"
        /\ \E i \in DOMAIN logged : logged[i] = ExceptionDetail

\* an authenticated tasks/send whose handler raised was answered
C21_Witness ==
    /\ nreq = 1
    /\ request.body = "tasks/send"
    /\ response.handler = "on_send_task"
    /\ response.error = "InternalError"
    /\ logged # <<>>

(***************************************************************************)
(* More claims about the orchestrator (under OrchSpec).                    *)
(***************************************************************************)
\* the keys of the session a failed turn must leave as they were
SessionKeys == {"session_id", "session_active", "task_id", "input_message_metadata"}
SameAt(st1, st2, k) ==
    /\ k \in DOMAIN st1 <=> k \in DOMAIN st2
    /\ k \in DOMAIN st1 => st1[k] = st2[k]

ActiveAgentIs(st, name) == "active_agent" \in DOMAIN st /\ st["active_agent"] = name

\* C22: when the remote call inside send_task fails, the session is left
\* consistent: active_agent is the addressed agent (recorded when the call
\* was initiated), and session_id, session_active, task_id and
\* input_message_metadata are what they were before the call.
C22_RemoteFailureKeepsSession ==
    [][/\ (call.pc = "idle" /\ call'.pc = "awaiting") =>
             /\ ActiveAgentIs(state', call'.agent_name)
             /\ \A k \in SessionKeys : SameAt(state, state', k)
       /\ (call.pc = "awaiting" /\ call'.pc = "raised") =>
             /\ call'.error = "RemoteError"
             /\ ActiveAgentIs(state', call.agent_name)
             /\ \A k \in SessionKeys : SameAt(state, state', k)]_vars

\* a remote call failed in a session that carried no task id: none is left
\* behind, and the addressed agent is the active one
C22_Witness ==
    /\ call.pc = "raised"
    /\ call.error = "RemoteError"
    /\ state["active_agent"] = call.agent_name
    /\ state["session_active"]
    /\ "task_id" \notin DOMAIN state

\* the request in flight carries the session id of the session, as sessionId
\* and as conversation_id of the request and of its message
CarriesSessionId ==
    call.pc = "awaiting" =>
        /\ "session_id" \in DOMAIN state
        /\ call.request.sessionId = state["session_id"]
        /\ call.request.metadata["conversation_id"] = state["session_id"]
        /\ call.request.message.metadata["conversation_id"] = state["session_id"]

\* C23: a session id is minted on the first use of the session and never
\* changed afterwards; every outgoing request carries it as sessionId and as
\* conversation_id, and send_task never runs with an unset session id.
C23_SessionIdStable ==
    /\ [](/\ turn = "llm" => "session_id" \in DOMAIN state
          /\ CarriesSessionId
          /\ call.error # "KeyError")
    /\ [][/\ "session_id" \in DOMAIN state =>
                /\ "session_id" \in DOMAIN state'
                /\ state'["session_id"] = state["session_id"]
          /\ ("session_id" \notin DOMAIN state /\ "session_id" \in DOMAIN state') =>
                /\ turn = "model"
                /\ state'["session_id"] = Uuid(nuuid')]_vars

\* the second send_task of a session that carried a conversation_id of its
\* own is in flight, with the session id minted before the first one
C23_Witness ==
    /\ ncall = 2
    /\ call.pc = "awaiting"
    /\ state["session_id"] = Uuid(1)
    /\ call.request.sessionId = Uuid(1)
    /\ "input_message_metadata" \in DOMAIN state
    /\ "conversation_id" \in DOMAIN state["input_message_metadata"]
    /\ state["input_message_metadata"]["conversation_id"] = PresetConversationId
    /\ call.request.message.metadata["conversation_id"] = Uuid(1)

(***************************************************************************)
(* More claims about the seller's task manager (under SellerSpec).         *)
(***************************************************************************)
\* the stored state of the task a request is about
StoredState(s) == tasks[slots[s].id].status.state

\* the step in which request s calls the executor
Invokes(s) == ~slots[s].invoked /\ slots'[s].invoked

\* the number of tasks/send messages the store accepted for a task
UserMessages(id) == Len(SelectSeq(tasks[id].history, LAMBDA m : m.role = "user"))

\* C24 (as stated): the executor is never invoked while the stored state of
\* the task is anything other than WORKING.
C24_InvokedOnlyWhileWorking ==
    [][\A s \in Slots : Invokes(s) => StoredState(s) = WORKING]_vars

\* C24 (amended): a tasks/send that passed validation and registration writes
\* WORKING before it calls the executor, for a new id and for one in
\* INPUT_REQUIRED alike; at the call the stored state is WORKING unless
\* another send for the same id was accepted and wrote its final status in
\* between; INPUT_REQUIRED is left only by a step of such a send for that id.
C24_WorkingBeforeInvoke ==
    [][/\ \A s \in Slots :
            /\ (slots[s].pc = "working" /\ slots'[s].pc = "invoke") =>
                   tasks'[slots[s].id].status.state = WORKING
            /\ Invokes(s) =>
                   /\ slots[s].pc = "invoke"
                   /\ \/ StoredState(s) = WORKING
                      \/ /\ UserMessages(slots[s].id) >= 2
                         /\ StoredState(s) \in {INPUT_REQUIRED, COMPLETED}
       /\ \A id \in DOMAIN tasks :
            (tasks[id].status.state = INPUT_REQUIRED
                 /\ tasks'[id].status.state # INPUT_REQUIRED) =>
               \E s \in Slots : /\ slots[s].id = id
                                /\ slots[s].pc \in {"working", "invoke"}
                                /\ slots'[s] # slots[s]]_vars

\* a task that was in INPUT_REQUIRED was continued by a second send, whose
\* executor was called and completed it
C24_Witness ==
    \E s \in Slots :
        /\ slots[s].pc = "done"
        /\ slots[s].invoked
        /\ slots[s].id \in DOMAIN tasks
        /\ Len(tasks[slots[s].id].history) = 3
        /\ tasks[slots[s].id].history[2].role = "agent"
        /\ tasks[slots[s].id].history[3].role = "user"
        /\ StoredState(s) = COMPLETED

\* request s1 has written WORKING and not yet its final status, and s2 is
\* another request for the same task
InFlightWith(s1, s2) ==
    /\ s1 # s2
    /\ slots[s1].id = slots[s2].id
    /\ slots[s1].pc = "invoke"

\* C25: two concurrent tasks/send requests for one task id are not
\* serialized: while one request is between its WORKING write and its final
\* write, nothing makes the other one wait with its own WORKING write or with
\* its final write, so that the status a request stored is overwritten.
C25_NotSerialized ==
    \A s1 \in Slots, s2 \in Slots :
        InFlightWith(s1, s2) =>
            /\ slots[s2].pc = "working" => ENABLED Working(s2)
            /\ slots[s2].pc = "invoke" => ENABLED Invoke(s2)

\* the interleaving: s2 has completed the task while s1, which wrote WORKING
\* in the same window, has its final write still to come
C25_Witness ==
    \E s1 \in Slots, s2 \in Slots :
        /\ InFlightWith(s1, s2)
        /\ slots[s1].kind = "text"
        /\ slots[s2].pc = "done"
        /\ slots[s2].resp = "result"
        /\ StoredState(s2) = COMPLETED

\* the input_message_metadata the session carries (none is an empty dict)
Carried ==
    IF "input_message_metadata" \in DOMAIN state THEN state["input_message_metadata"] ELSE <<>>

\* the metadata of the message in flight
OutgoingMetadata == call.request.message.metadata

\* the message in flight has role user and the task text as its only part,
\* and its metadata is the carried one and the two keys, conversation_id
\* being the session id
OutgoingMessageBuilt ==
    /\ call.request.message.role = "user"
    /\ call.request.message.parts = <<TextPart(call.text)>>
    /\ DOMAIN OutgoingMetadata = DOMAIN Carried \cup {"conversation_id", "message_id"}
    /\ \A k \in DOMAIN Carried \ {"conversation_id", "message_id"} :
           OutgoingMetadata[k] = Carried[k]
    /\ OutgoingMetadata["conversation_id"] = state["session_id"]

\* C26 (as stated): the message_id of the outgoing message is freshly
\* assigned for the turn (the uuid drawn last).
C26_MessageIdFresh ==
    call.pc = "awaiting" =>
        /\ OutgoingMessageBuilt
        /\ OutgoingMetadata["message_id"] = Uuid(nuuid)

\* C26 (amended): the outgoing message has role user and a single text part
\* equal to the task text; its metadata is the union of the carried
\* input_message_metadata with conversation_id (always the session id) and
\* message_id, which is the carried message_id when there is one and a
\* fresh one otherwise.
C26_OutgoingMessage ==
    call.pc = "awaiting" =>
        /\ OutgoingMessageBuilt
        /\ OutgoingMetadata["message_id"] =
               IF "message_id" \in DOMAIN Carried THEN Carried["message_id"] ELSE Uuid(nuuid)

\* a request is in flight for a session that carried a conversation_id and a
\* user_id of its own and no message_id
C26_Witness ==
    /\ call.pc = "awaiting"
    /\ DOMAIN Carried = {"conversation_id", "user_id"}
    /\ OutgoingMetadata["conversation_id"] = Uuid(1)
    /\ OutgoingMetadata["user_id"] = PresetUserId
    /\ OutgoingMetadata["message_id"] = Uuid(nuuid)
    /\ call.request.message.parts = <<TextPart("order a burger")>>

\* the step in which a tasks/send arrives on s and is answered at once
RejectedAtOnce(s) ==
    /\ slots[s].pc \in {"idle", "done"}
    /\ nsent' = nsent + 1
    /\ slots'[s] # slots[s]
    /\ slots'[s].pc = "done"

\* C27: a tasks/send rejected by validation (no accepted output mode that is
\* supported, or a push config with no url) returns an error and leaves the
\* store as it was: no task created, no history entry, no status change, no
\* push config stored, no executor call and no delivery.
C27_RejectedSendChangesNothing ==
    [][\A s \in Slots :
          /\ RejectedAtOnce(s) =>
                /\ slots'[s].resp \in {"ContentTypeNotSupported", "InvalidParams"}
                /\ tasks' = tasks
                /\ push_notification_infos' = push_notification_infos
                /\ delivered' = delivered
                /\ ~slots'[s].invoked
                /\ slots'[s].notified = "none"
          /\ (nsent' = nsent + 1 /\ slots'[s] # slots[s]
                  /\ slots'[s].push.set /\ slots'[s].push.url = "") =>
                RejectedAtOnce(s)]_vars

\* a send for a task in INPUT_REQUIRED was rejected for its output modes:
\* the task has the two history entries and the status it had
C27_Witness ==
    \E s \in Slots :
        /\ slots[s].pc = "done"
        /\ slots[s].resp = "ContentTypeNotSupported"
        /\ slots[s].id \in DOMAIN tasks
        /\ StoredState(s) = INPUT_REQUIRED
        /\ Len(tasks[slots[s].id].history) = 2

\* request s got past validation and registration and has finished
FinishedAccepted(s) ==
    /\ slots[s].pc = "done"
    /\ slots[s].resp \in {"result", "ValueError"}

\* no other request for the task of s is under way
NoneElseInFlight(s) ==
    \A other \in Slots \ {s} :
        ~(slots[other].id = slots[s].id /\ slots[other].pc \in {"verify", "working", "invoke"})

\* C28: a tasks/send that passes validation leaves its task in a state other
\* than WORKING, also when the executor raises or the first part is not
\* text: once the request has finished (and no other one for the task is
\* under way) the stored state is not WORKING.
C28_NeverLeftWorking ==
    \A s \in Slots :
        (FinishedAccepted(s) /\ NoneElseInFlight(s)) => StoredState(s) # WORKING

\* the step in which request s gets the executor's result and stores it
StoresResult(s) == slots[s].pc = "invoke" /\ slots'[s].resp = "result"

\* C29: for every executor result, the send ends with the task in
\* INPUT_REQUIRED with an agent status message carrying the content exactly
\* when require_user_input is true, and otherwise in COMPLETED with exactly
\* one new artifact carrying the content and no status message; COMPLETED is
\* stored only for a result with is_task_complete true.
C29_ResultDecidesOutcome ==
    [][\A s \in Slots :
          StoresResult(s) =>
              LET r == slots'[s].agent_response
                  before == tasks[slots[s].id]
                  after == tasks'[slots[s].id]
              IN  /\ r \in AgentResponses
                  /\ r.require_user_input =>
                        /\ after.status = TaskStatus(INPUT_REQUIRED, AgentMessage(r.content))
                        /\ after.artifacts = before.artifacts
                  /\ ~r.require_user_input =>
                        /\ after.status = TaskStatus(COMPLETED, NoMessage)
                        /\ after.artifacts = Append(before.artifacts, r.content)
                  /\ after.status.state = COMPLETED => r.is_task_complete]_vars

\* a send ended with a completed result: one artifact, no status message
C29_Witness ==
    \E s \in Slots :
        /\ slots[s].pc = "done"
        /\ slots[s].resp = "result"
        /\ slots[s].agent_response.is_task_complete
        /\ tasks[slots[s].id].status = TaskStatus(COMPLETED, NoMessage)
        /\ tasks[slots[s].id].artifacts = <<"reply">>

\* C30: check_active_agent reports an agent name X other than "None" only
\* if a send_task to X is in progress, or the most recent send_task was
\* addressed to X and did not end in a terminal state; an agent whose last
\* task ended FAILED or CANCELED is never reported on a later turn.
C30_ReportedAgentIsLive ==
    check_active_agent(state) # "None" =>
        /\ last_send.agent_name = check_active_agent(state)
        /\ last_send.result \notin TerminalStates

\* C31: send_task never changes the request it was given: after the call the
\* metadata of the request and of its message are what they were, also when
\* the response had no metadata of its own; and the callback, when there is
\* one, is invoked exactly once, after the reconciliation, with the task
\* that is returned.
C31_RequestUntouched ==
    conn.pc = "returned" =>
        /\ conn.request_after = conn.request
        /\ conn.task_callback => (conn.callbacks = 1 /\ conn.callback_arg = conn.result)
        /\ ~conn.task_callback => conn.callbacks = 0

\* a call with a callback came back with a status message that had no
\* metadata of its own: the message got the request message's metadata, a
\* last_message_id and a fresh message_id, and the callback got that task
C31_Witness ==
    /\ conn.pc = "returned"
    /\ conn.task_callback
    /\ HasStatusMessage(conn.received)
    /\ ~Nonempty(conn.received.status.message.metadata)
    /\ Nonempty(conn.request.message.metadata)
    /\ "message_id" \in DOMAIN conn.request.message.metadata.val
    /\ "last_message_id" \in DOMAIN conn.result.status.message.metadata.val
    /\ conn.result.status.message.metadata.val["message_id"] = Uuid(nuuid)
    /\ conn.callback_arg = conn.result
    /\ conn.request_after = conn.request

=============================================================================
